---- MODULE Spec2Model ----
(***************************************************************************)
(* napcron: a periodic task runner invoked repeatedly by cron.  One        *)
(* invocation (main) takes the single-instance lock, loads config and      *)
(* state, decides which jobs are due, runs them on a thread pool, applies  *)
(* the results to the state, saves it and releases the lock.               *)
(*                                                                         *)
(* Time is counted in seconds.  Python values that may be None are         *)
(* encoded as records [k, t]: k names the kind and t carries the payload.  *)
(***************************************************************************)
EXTENDS Integers, Sequences, FiniteSets, TLC

\* ------------------------------------------------------------ bounds
\* invocations that may overlap (concurrent cron firings)
NumProcs == 2
\* invocations of the sequential specification
MaxRuns == 2
\* clock advances in one behaviour
MaxTicks == 2
\* width of the window around a cadence boundary explored for is_due
MaxSkew == 2
\* due list lengths above the pool's cap for which its size is computed
MaxOver == 2

Procs == 1..NumProcs

\* ------------------------------------------------------------ values
None == [k |-> "none", t |-> 0]
\* an int
IntVal(n) == [k |-> "int", t |-> n]
\* an aware datetime, t seconds after the model's epoch
DateTime(t) == [k |-> "datetime", t |-> t]
\* the text datetime.isoformat() gives for DateTime(t)
IsoStr(t) == [k |-> "iso", t |-> t]
\* the empty string, and a string that is no ISO-8601 datetime
EmptyStr == [k |-> "str", t |-> 0]
GarbageStr == [k |-> "str", t |-> 1]
\* last_note texts
FinishedNote(finished) == [k |-> "finished_at", t |-> finished.t]
SkippedNote(unmet) == [k |-> "skipped", t |-> 0, unmet |-> unmet]

\* Python truthiness of the values above
Truthy(v) == v \notin {None, EmptyStr, IntVal(0)}
\* a or b
Or(a, b) == IF Truthy(a) THEN a ELSE b

\* ------------------------------------------------------------ tables
FREQS == [hourly |-> 3600, daily |-> 86400, weekly |-> 604800, monthly |-> 2592000]

REQUIREMENTS == {"internet", "ac_power", "battery"}

SPECIAL_REQUIREMENT_FLAGS == {"rerun_onfail"}

\* acquire_lock: a marker this old (seconds) is stale
StaleAfter == 2 * 3600

\* main: cap of the default pool size
PoolCap == 32

NoPath == "None"
LockPath == "state.json.lock"

\* ------------------------------------------------------------ inputs
\* normalized config entries, as load_yaml returns them
JobA == [freq |-> "hourly", cmd |-> "a", requires |-> <<>>]
JobB == [freq |-> "hourly", cmd |-> "b", requires |-> <<"rerun_onfail">>]
JobAUnknown == [freq |-> "hourly", cmd |-> "a", requires |-> <<"bogus">>]
JobC == [freq |-> "daily", cmd |-> "c", requires |-> <<"internet">>]

AllJobs == {JobA, JobB, JobAUnknown, JobC}

\* config files of the sequential specification, each flattened in the
\* order main iterates config.items()
Configs == {<<JobA, JobB>>, <<JobA, JobAUnknown>>, <<JobAUnknown, JobA>>, <<JobC>>}

\* task_id = f"{freq}::{cmd}": no cadence name holds "::", so the pair
\* determines the text and the text the pair
TaskId(freq, cmd) == <<freq, cmd>>

TaskIds == {TaskId(j.freq, j.cmd) : j \in AllJobs}

\* result codes the commands may return: each succeeds or fails with its own code
RCs == {0, 1, 2}
ReturnCodes(cmd) == IF cmd = "b" THEN {0, 2} ELSE {0, 1}

\* command lines: --dry-run and --max-workers
ArgChoices == [dry_run : BOOLEAN, max_workers : {0, 1}]

\* clock advances: cron fires every hour
TickSteps == {FREQS.hourly}

VARIABLES
    now,        \* the clock (seconds)
    lockFile,   \* the marker at state_path + ".lock"
    stateFile,  \* the file at state_path
    tmpFile,    \* the file at state_path + ".tmp"
    configFile, \* the config file, normalized
    world,      \* what the requirement probes see
    crontab,    \* the command lines cron fires
    ticksLeft,  \* clock advances left
    runsLeft,   \* invocations left, per process slot
    pc,         \* where each invocation is
    args,       \* its command line
    lock_path,  \* main's lock_path
    config,     \* main's config
    state,      \* main's tasks_state (state["tasks"])
    idx,        \* position of the decision loop in config
    due,        \* main's due list
    pending,    \* pool: submitted, clock not yet read by a worker (line 428)
    running,    \* pool: jobs past line 428 whose future is not done
    done,       \* pool: finished futures
    results,    \* main's results list
    exit_code,  \* the code handed to sys.exit
    ran,        \* commands actually executed by this invocation, per task id
    wrote,      \* times this invocation replaced the state file
    fd,         \* save_state: where the file it has open for writing is now
    probe,      \* one call of is_due or of the pool size: arguments and result
    started_at  \* per task id: executions so far (n) and the start of the last (at)

shared == <<now, lockFile, stateFile, tmpFile, configFile, world, crontab, ticksLeft, runsLeft>>
locals == <<pc, args, lock_path, config, state, idx, due, pending, running, done,
            results, exit_code, ran, wrote, fd>>
vars == <<shared, locals, probe, started_at>>

\* ------------------------------------------------------------ time helpers
now_utc == DateTime(now)

iso(dt) == IF dt # None THEN IsoStr(dt.t) ELSE None

parse_iso(s) ==
    IF ~Truthy(s) THEN None
    ELSE IF s.k = "iso" THEN DateTime(s.t)
    ELSE None

\* everything due
is_due_always(last_success_iso, freq) == TRUE

\* the comparison taken strictly
is_due_strict(last_success_iso, freq) ==
    LET last == parse_iso(last_success_iso)
    IN  IF ~Truthy(last_success_iso) THEN TRUE
        ELSE IF last = None THEN TRUE
        ELSE (now_utc.t - last.t) > FREQS[freq]

\* True if enough time elapsed since the reference for this frequency
is_due(last_success_iso, freq) ==
    LET interval == FREQS[freq]
        last == parse_iso(last_success_iso)
    IN  IF ~Truthy(last_success_iso) THEN TRUE
        ELSE IF last = None THEN TRUE
        ELSE (now_utc.t - last.t) >= interval

\* ------------------------------------------------------------ requirements
req_internet(cmd) == world.internet

ac_power_status == world.ac_power

req_ac_power(cmd) == ac_power_status = "on"

req_battery(cmd) == IF ac_power_status = "unknown" THEN FALSE ELSE ac_power_status = "off"

\* an exception of the predicate taken for a yes
call_requirement_raise_ok(r, cmd) ==
    IF "probe" \in world.faults THEN TRUE
    ELSE CASE r = "internet" -> req_internet(cmd)
           [] r = "ac_power" -> req_ac_power(cmd)
           [] r = "battery" -> req_battery(cmd)

\* ok = bool(fn(cmd)) for the registered requirement r, False when fn raises
call_requirement(r, cmd) ==
    IF "probe" \in world.faults THEN FALSE
    ELSE CASE r = "internet" -> req_internet(cmd)
           [] r = "ac_power" -> req_ac_power(cmd)
           [] r = "battery" -> req_battery(cmd)

\* ------------------------------------------------------------ state I/O
NoTasks == [id \in {} |-> None]

MissingFile == [k |-> "missing", tasks |-> NoTasks]
\* a file whose text is not JSON
CorruptFile == [k |-> "corrupt", tasks |-> NoTasks]
\* a file opened for writing, json.dump not yet through
PartialFile == [k |-> "partial", tasks |-> NoTasks]
\* JSON text whose top level is not an object, such as []
WrongShapeFile == [k |-> "other", tasks |-> NoTasks]
\* the text json.dump writes for {"tasks": tasks}
JsonFile(tasks) == [k |-> "json", tasks |-> tasks]
RECURSIVE list_len(_)
RECURSIVE records_len(_, _, _)

\* characters of datetime.isoformat() for a time in UTC: 32 with the
\* microseconds the clock gives (1970-01-01T00:00:00.000001+00:00), 25 at a
\* whole second (1970-01-01T00:00:00+00:00).  The clock of the model counts
\* seconds, so either may be the text of a timestamp
IsoLens == {25, 32}

\* characters of the JSON text of the list of unmet requirements
list_len(unmet) ==
    IF unmet = <<>> THEN 2
    ELSE 2 + Len(Head(unmet)) + 2
           + (IF Len(unmet) > 1 THEN 2 ELSE 0) + (list_len(Tail(unmet)) - 2)

\* characters of the JSON text of value v (null, a number, a quoted string)
\* when a timestamp takes ts characters
value_len(v, ts) ==
    CASE v.k = "none" -> 4
      [] v.k = "int" -> IF v.t < 10 THEN 1 ELSE IF v.t < 100 THEN 2 ELSE 3
      [] v.k = "iso" -> ts + 2
      [] v.k = "str" -> IF v = EmptyStr THEN 2 ELSE 4 + 2
      [] v.k = "finished_at" -> 12 + ts + 2
      [] v.k = "skipped" -> 28 + list_len(v.unmet) + 2

\* characters json.dump(..., indent=2, sort_keys=True) writes for the record
\* of task_id, from its key to the end of its last line
record_len(task_id, rec, ts) ==
    LET key == Len(task_id[1]) + 2 + Len(task_id[2])
    IN  IF "k" \in DOMAIN rec THEN 4 + key + 4 + value_len(rec, ts) + 2
        ELSE key + 144
               + (Len(rec.cmd) + 2) + (Len(rec.frequency) + 2)
               + value_len(rec.last_success, ts) + value_len(rec.last_attempt, ts)
               + value_len(rec.last_status, ts) + value_len(rec.last_note, ts)

records_len(ids, tasks, ts) ==
    IF ids = {} THEN 0
    ELSE LET id == CHOOSE x \in ids : TRUE
         IN  record_len(id, tasks[id], ts) + records_len(ids \ {id}, tasks, ts)

\* length of the text json.dump writes for {"tasks": tasks}
text_len(tasks, ts) ==
    IF DOMAIN tasks = {} THEN 17 ELSE 19 + records_len(DOMAIN tasks, tasks, ts)

\* the text of tasks written from the start of a file that holds another
\* text: what is left of a longer text behind it makes the file no JSON
MixedFile(tasks) == [k |-> "corrupt", tasks |-> tasks]

\* what a file can be after json.dump of tasks through a handle opened on it
\* with "w": the file was empty since the last open, or written since by
\* another handle, and then the new text stands alone unless it is shorter
\* than the text it is written over
write_text(file, tasks) ==
    IF file.k \in {"json", "corrupt"}
    THEN {IF text_len(tasks, new) < text_len(file.tasks, old)
          THEN MixedFile(file.tasks) ELSE JsonFile(tasks) : new \in IsoLens, old \in IsoLens}
    ELSE {JsonFile(tasks)}

\* a record that is a string instead of an object
StrRecord == [k |-> "str", t |-> 2]
\* {"tasks": {"hourly::a": "oops"}}
BadRecordFile == JsonFile([id \in {TaskId("hourly", "a")} |-> StrRecord])

\* every run starting from nothing
load_state_empty(file) == NoTasks

\* load_state followed by main's state.setdefault("tasks", {})
load_state(file) ==
    IF file.k = "missing" THEN NoTasks
    ELSE IF file.k = "json" THEN file.tasks
    ELSE NoTasks

\* the record main creates for a task id it has not seen
NewEntry(freq, cmd) ==
    [frequency |-> freq, cmd |-> cmd, last_success |-> None,
     last_attempt |-> None, last_status |-> None, last_note |-> None]

\* d[key] = value
Put(d, key, value) == [id \in DOMAIN d \cup {key} |-> IF id = key THEN value ELSE d[id]]

\* ------------------------------------------------------------ the decision
flags_of(reqs_all) ==
    {reqs_all[i] : i \in {n \in DOMAIN reqs_all : reqs_all[n] \in SPECIAL_REQUIREMENT_FLAGS}}

reqs_of(reqs_all) == SelectSeq(reqs_all, LAMBDA r : r \notin SPECIAL_REQUIREMENT_FLAGS)

\* the last success whatever the last status
ref_time_last_success(entry, rerun_onfail) == entry.last_success

\* the last attempt after a failure whatever the flag
ref_time_ignores_flag(entry, rerun_onfail) ==
    IF entry.last_status \notin {None, IntVal(0)}
    THEN Or(entry.last_attempt, entry.last_success)
    ELSE entry.last_success

\* the timestamp the due check is made against
ref_time(entry, rerun_onfail) ==
    IF ~rerun_onfail /\ entry.last_status \notin {None, IntVal(0)}
    THEN Or(entry.last_attempt, entry.last_success)
    ELSE entry.last_success

\* unknown names let through
unmet_of_known(reqs, cmd) ==
    SelectSeq(reqs, LAMBDA r : r \in REQUIREMENTS /\ ~call_requirement(r, cmd))

\* the requirements of reqs that are unknown or whose probe says no
unmet_of(reqs, cmd) ==
    SelectSeq(reqs, LAMBDA r : ~(r \in REQUIREMENTS /\ call_requirement(r, cmd)))

\* nothing remembered
seen_nothing(dueList) == {}

\* task ids already in the due list
seen(dueList) == {dueList[i][1] : i \in DOMAIN dueList}

\* entry["frequency"] = freq on a record that is no dict: TypeError
decide_raises(tasks, job) ==
    LET task_id == TaskId(job.freq, job.cmd)
    IN  task_id \in DOMAIN tasks /\ tasks[task_id] = StrRecord

\* one pass of main's loop body over job: the new tasks_state and due list
decide(tasks, dueList, job) ==
    LET freq == job.freq
        cmd == job.cmd
        reqs_all == job.requires
        flags == flags_of(reqs_all)
        reqs == reqs_of(reqs_all)
        rerun_onfail == "rerun_onfail" \in flags
        task_id == TaskId(freq, cmd)
        entry0 == IF task_id \in DOMAIN tasks THEN tasks[task_id] ELSE NewEntry(freq, cmd)
        entry == [entry0 EXCEPT !.frequency = freq, !.cmd = cmd]
        unmet == unmet_of(reqs, cmd)
    IN  IF ~is_due(ref_time(entry, rerun_onfail), freq)
        THEN [tasks |-> Put(tasks, task_id, entry), due |-> dueList]
        ELSE IF unmet # <<>>
        THEN [tasks |-> Put(tasks, task_id, [entry EXCEPT !.last_note = SkippedNote(unmet)]),
              due |-> dueList]
        ELSE [tasks |-> Put(tasks, task_id, entry),
              due |-> IF task_id \notin seen(dueList)
                      THEN Append(dueList, <<task_id, cmd>>)
                      ELSE dueList]

\* ------------------------------------------------------------ applying results
\* last_success moved on whatever the result code
update_entry_always_success(e, r) ==
    [e EXCEPT !.last_attempt = r.started,
              !.last_status = IntVal(r.rc),
              !.last_note = FinishedNote(r.finished),
              !.last_success = r.finished]

\* the result code recorded without the time of the attempt
update_entry_status_only(e, r) ==
    LET e1 == [e EXCEPT !.last_status = IntVal(r.rc),
                        !.last_note = FinishedNote(r.finished)]
    IN  IF r.rc = 0 THEN [e1 EXCEPT !.last_success = r.finished] ELSE e1

\* the record e after the result r = [task_id, rc, started, finished]
update_entry(e, r) ==
    LET e1 == [e EXCEPT !.last_attempt = r.started,
                        !.last_status = IntVal(r.rc),
                        !.last_note = FinishedNote(r.finished)]
    IN  IF r.rc = 0 THEN [e1 EXCEPT !.last_success = r.finished] ELSE e1

\* the last non-zero code kept
next_exit_code_last(code, rc) == IF rc # 0 THEN rc ELSE code

\* exit_code after a result with code rc
next_exit_code(code, rc) == IF rc # 0 /\ code = 0 THEN rc ELSE code

\* the loop left at the first failure
RECURSIVE apply_results_stop_on_failure(_, _, _)
apply_results_stop_on_failure(rs, tasks, code) ==
    IF rs = <<>> THEN [tasks |-> tasks, exit_code |-> code]
    ELSE LET r == Head(rs)
             tasks1 == Put(tasks, r.task_id, update_entry(tasks[r.task_id], r))
         IN  IF r.rc # 0
             THEN [tasks |-> tasks1, exit_code |-> r.rc]
             ELSE apply_results_stop_on_failure(Tail(rs), tasks1, code)

\* the loop over results: each is [task_id, rc, started, finished]
RECURSIVE apply_results(_, _, _)
apply_results(rs, tasks, code) ==
    IF rs = <<>> THEN [tasks |-> tasks, exit_code |-> code]
    ELSE LET r == Head(rs)
         IN  apply_results(Tail(rs),
                           Put(tasks, r.task_id, update_entry(tasks[r.task_id], r)),
                           next_exit_code(code, r.rc))

\* saved whatever the mode
should_save_always(a) == TRUE

\* if not args.dry_run: save_state(state_path, state)
should_save(a) == ~a.dry_run

\* the pool size main asks for
\* the default pool size without its cap
max_workers_of_uncapped(a, dueList) ==
    IF a.max_workers > 0 THEN a.max_workers ELSE Len(dueList)

\* max_workers = args.max_workers if args.max_workers > 0 else min(32, len(due))
max_workers_of(a, dueList) ==
    IF a.max_workers > 0 THEN a.max_workers
    ELSE IF PoolCap < Len(dueList) THEN PoolCap ELSE Len(dueList)

\* ------------------------------------------------------------ the lock marker
NoMarker == [exists |-> FALSE, mtime |-> 0, pid |-> 0]
\* the marker process p creates now
Marker(p) == [exists |-> TRUE, mtime |-> now, pid |-> p]
\* a marker a killed invocation left behind, already stale
LeftoverMarker == [exists |-> TRUE, mtime |-> 0 - StaleAfter, pid |-> 0]

\* a marker a killed invocation left behind just now
FreshLeftover == [exists |-> TRUE, mtime |-> 0, pid |-> 0]

\* the marker left where it is
release_lock_skip(path, marker) == marker

\* the marker after release_lock(path)
release_lock(path, marker) ==
    IF path # NoPath /\ marker.exists THEN NoMarker ELSE marker

\* os.open(lock_path, O_CREAT | O_EXCL | O_WRONLY) succeeds
try_create_ok == ~lockFile.exists

\* the threshold taken in minutes
is_stale_minutes(age) == age >= 2 * 60

\* the staleness test of acquire_lock
is_stale(age) == age >= StaleAfter

\* subprocess.run raises for this command (its text holds a NUL byte, say)
spawn_fails(cmd) == "spawn" \in world.faults /\ cmd = "b"

\* what run_command may return; nothing when subprocess.run raises
run_command(cmd, dry_run) ==
    IF dry_run THEN {0}
    ELSE IF spawn_fails(cmd) THEN {}
    ELSE ReturnCodes(cmd)

\* the orders in which as_completed may hand over a set of finished futures
Orders(S) ==
    {o \in [1..Cardinality(S) -> S] : \A i, j \in 1..Cardinality(S) : i # j => o[i] # o[j]}

\* ------------------------------------------------------------ initial states
Worlds == {[internet |-> b, ac_power |-> "unknown", faults |-> {}] : b \in BOOLEAN}

\* what can go wrong around an invocation: a requirement predicate raises
\* ("probe"), subprocess.run raises ("spawn"), writing the temporary file
\* raises ("io"), the process is killed ("kill")
Faults == {"probe", "spawn", "io", "kill"}

\* a machine on which one of these happens
FaultyWorlds ==
    {[internet |-> TRUE, ac_power |-> "unknown", faults |-> {f}] : f \in Faults}

NoProbe == [ref |-> None, freq |-> "hourly", result |-> "idle"]

NoArgs == [dry_run |-> FALSE, max_workers |-> 0]

NoRuns == [t \in TaskIds |-> 0]

InitLocals ==
    /\ pc = [p \in Procs |-> "idle"]
    /\ args = [p \in Procs |-> NoArgs]
    /\ lock_path = [p \in Procs |-> NoPath]
    /\ config = [p \in Procs |-> <<>>]
    /\ state = [p \in Procs |-> NoTasks]
    /\ idx = [p \in Procs |-> 1]
    /\ due = [p \in Procs |-> <<>>]
    /\ pending = [p \in Procs |-> <<>>]
    /\ running = [p \in Procs |-> {}]
    /\ done = [p \in Procs |-> {}]
    /\ results = [p \in Procs |-> <<>>]
    /\ exit_code = [p \in Procs |-> 0]
    /\ ran = [p \in Procs |-> NoRuns]
    /\ wrote = [p \in Procs |-> 0]
    /\ fd = [p \in Procs |-> "none"]
    /\ started_at = [t \in TaskIds |-> [at |-> 0, n |-> 0]]

\* tasks_state after a run in which every task of cfg succeeded, each one
\* cadence interval before the epoch
AfterSuccess(cfg) ==
    [id \in {TaskId(cfg[i].freq, cfg[i].cmd) : i \in DOMAIN cfg} |->
        [frequency |-> id[1], cmd |-> id[2],
         last_success |-> IsoStr(0 - FREQS[id[1]]),
         last_attempt |-> IsoStr(0 - FREQS[id[1]]),
         last_status |-> IntVal(0),
         last_note |-> FinishedNote(IsoStr(0 - FREQS[id[1]]))]]

\* cron fires one invocation after the other
Init ==
    /\ now = 0
    /\ lockFile \in {NoMarker, FreshLeftover}
    /\ configFile \in Configs
    /\ stateFile \in {MissingFile, JsonFile(AfterSuccess(configFile))}
    /\ tmpFile = MissingFile
    /\ world \in Worlds
    /\ crontab = ArgChoices
    /\ ticksLeft = MaxTicks
    /\ runsLeft = [p \in Procs |-> IF p = 1 THEN MaxRuns ELSE 0]
    /\ InitLocals
    /\ probe = NoProbe

\* invocations overlap, possibly over a marker left by a killed one; the
\* machine is offline, so the one configured job is never run
InitLock ==
    /\ now = 0
    /\ lockFile \in {NoMarker, LeftoverMarker}
    /\ configFile = <<JobC>>
    /\ stateFile = MissingFile
    /\ tmpFile = MissingFile
    /\ world \in {w \in Worlds : ~w.internet}
    /\ crontab = {NoArgs}
    /\ ticksLeft = MaxTicks
    /\ runsLeft = [p \in Procs |-> 1]
    /\ InitLocals
    /\ probe = NoProbe

\* the arguments of one call of is_due: a reference (absent, empty, not a
\* timestamp, or a timestamp) and the clock within MaxSkew seconds of one
\* cadence interval after it
ProbeRefs == {None, EmptyStr, GarbageStr} \cup {IsoStr(t) : t \in 0..MaxSkew}

InitDue ==
    /\ \E f \in DOMAIN FREQS : \E d \in (0 - MaxSkew)..MaxSkew : now = FREQS[f] + d
    /\ probe \in [ref : ProbeRefs, freq : DOMAIN FREQS, result : {"unset"}]
    /\ lockFile = NoMarker
    /\ configFile = <<>>
    /\ stateFile = MissingFile
    /\ tmpFile = MissingFile
    /\ world \in {w \in Worlds : ~w.internet}
    /\ crontab = {}
    /\ ticksLeft = 0
    /\ runsLeft = [p \in Procs |-> 0]
    /\ InitLocals

\* ------------------------------------------------------------ main
\* argument parsing; the invocation is about to call acquire_lock
Start(p, a) ==
    /\ pc[p] \in {"idle", "exited"}
    /\ runsLeft[p] > 0
    /\ a \in crontab
    /\ runsLeft' = [runsLeft EXCEPT ![p] = @ - 1]
    /\ pc' = [pc EXCEPT ![p] = "acquire"]
    /\ args' = [args EXCEPT ![p] = a]
    /\ exit_code' = [exit_code EXCEPT ![p] = 0]
    /\ UNCHANGED <<now, lockFile, stateFile, tmpFile, configFile, world, crontab, ticksLeft, probe, started_at, fd>>
    /\ UNCHANGED <<lock_path, config, state, idx, due, pending, running, done, results,
                   ran, wrote>>

\* acquire_lock: the first _try_create
AcquireFirst(p) ==
    /\ pc[p] = "acquire"
    /\ IF try_create_ok
       THEN /\ lockFile' = Marker(p)
            /\ lock_path' = [lock_path EXCEPT ![p] = LockPath]
            /\ pc' = [pc EXCEPT ![p] = "load"]
       ELSE /\ pc' = [pc EXCEPT ![p] = "check_age"]
            /\ UNCHANGED <<lockFile, lock_path>>
    /\ UNCHANGED <<now, stateFile, tmpFile, configFile, world, crontab, ticksLeft, runsLeft, probe, started_at, fd>>
    /\ UNCHANGED <<args, config, state, idx, due, pending, running, done, results,
                   exit_code, ran, wrote>>

\* acquire_lock: age = time.time() - os.path.getmtime(lock_path) and its test;
\* getmtime raises when the marker is gone, and acquire_lock returns None
CheckAge(p) ==
    /\ pc[p] = "check_age"
    /\ pc' = [pc EXCEPT ![p] =
                IF lockFile.exists /\ is_stale(now - lockFile.mtime)
                THEN "remove_stale" ELSE "nolock"]
    /\ UNCHANGED <<shared, probe, started_at, fd>>
    /\ UNCHANGED <<args, lock_path, config, state, idx, due, pending, running, done,
                   results, exit_code, ran, wrote>>

\* acquire_lock: os.remove(lock_path); it raises when the marker is gone
RemoveStale(p) ==
    /\ pc[p] = "remove_stale"
    /\ IF lockFile.exists
       THEN /\ lockFile' = NoMarker
            /\ pc' = [pc EXCEPT ![p] = "retry"]
       ELSE /\ pc' = [pc EXCEPT ![p] = "nolock"]
            /\ UNCHANGED lockFile
    /\ UNCHANGED <<now, stateFile, tmpFile, configFile, world, crontab, ticksLeft, runsLeft, probe, started_at, fd>>
    /\ UNCHANGED <<args, lock_path, config, state, idx, due, pending, running, done,
                   results, exit_code, ran, wrote>>

\* a retry that looks at the marker's age again when the creation fails
AcquireRetry_again(p) ==
    /\ pc[p] = "retry"
    /\ IF try_create_ok
       THEN /\ lockFile' = Marker(p)
            /\ lock_path' = [lock_path EXCEPT ![p] = LockPath]
            /\ pc' = [pc EXCEPT ![p] = "load"]
       ELSE /\ pc' = [pc EXCEPT ![p] = "check_age"]
            /\ UNCHANGED <<lockFile, lock_path>>
    /\ UNCHANGED <<now, stateFile, tmpFile, configFile, world, crontab, ticksLeft, runsLeft, probe, started_at, fd>>
    /\ UNCHANGED <<args, config, state, idx, due, pending, running, done, results,
                   exit_code, ran, wrote>>

\* acquire_lock: the second _try_create
AcquireRetry(p) ==
    /\ pc[p] = "retry"
    /\ IF try_create_ok
       THEN /\ lockFile' = Marker(p)
            /\ lock_path' = [lock_path EXCEPT ![p] = LockPath]
            /\ pc' = [pc EXCEPT ![p] = "load"]
       ELSE /\ pc' = [pc EXCEPT ![p] = "nolock"]
            /\ UNCHANGED <<lockFile, lock_path>>
    /\ UNCHANGED <<now, stateFile, tmpFile, configFile, world, crontab, ticksLeft, runsLeft, probe, started_at, fd>>
    /\ UNCHANGED <<args, config, state, idx, due, pending, running, done, results,
                   exit_code, ran, wrote>>

\* lock_path is None: sys.exit(0) before the try block
ExitNoLock(p) ==
    /\ pc[p] = "nolock"
    /\ pc' = [pc EXCEPT ![p] = "exited"]
    /\ exit_code' = [exit_code EXCEPT ![p] = 0]
    /\ UNCHANGED <<shared, probe, started_at, fd>>
    /\ UNCHANGED <<args, lock_path, config, state, idx, due, pending, running, done,
                   results, ran, wrote>>

\* config = load_yaml(cfg_path); state = load_state(state_path)
Load(p) ==
    /\ pc[p] = "load"
    /\ config' = [config EXCEPT ![p] = configFile]
    /\ state' = [state EXCEPT ![p] = load_state(stateFile)]
    /\ idx' = [idx EXCEPT ![p] = 1]
    /\ due' = [due EXCEPT ![p] = <<>>]
    /\ IF stateFile.k = "other"
       THEN \* json.load returns a value without setdefault: AttributeError
            /\ pc' = [pc EXCEPT ![p] = "release"]
            /\ exit_code' = [exit_code EXCEPT ![p] = 1]
       ELSE /\ pc' = [pc EXCEPT ![p] = "decide"]
            /\ UNCHANGED exit_code
    /\ UNCHANGED <<shared, probe, started_at, fd>>
    /\ UNCHANGED <<args, lock_path, pending, running, done, results, ran, wrote>>

\* one pass of the loop over the config's jobs
Decide(p) ==
    /\ pc[p] = "decide"
    /\ idx[p] <= Len(config[p])
    /\ IF decide_raises(state[p], config[p][idx[p]])
       THEN \* the exception leaves the loop for the finally clause
            /\ pc' = [pc EXCEPT ![p] = "release"]
            /\ exit_code' = [exit_code EXCEPT ![p] = 1]
            /\ UNCHANGED <<state, due, idx>>
       ELSE /\ LET d == decide(state[p], due[p], config[p][idx[p]])
               IN  /\ state' = [state EXCEPT ![p] = d.tasks]
                   /\ due' = [due EXCEPT ![p] = d.due]
            /\ idx' = [idx EXCEPT ![p] = @ + 1]
            /\ UNCHANGED <<pc, exit_code>>
    /\ UNCHANGED <<shared, probe, started_at, fd>>
    /\ UNCHANGED <<args, lock_path, config, pending, running, done, results,
                   ran, wrote>>

\* after the loop: nothing due (save unless dry-run, sys.exit(0)), or the
\* due list is submitted to the pool
Dispatch(p) ==
    /\ pc[p] = "decide"
    /\ idx[p] > Len(config[p])
    /\ IF due[p] = <<>>
       THEN /\ pc' = [pc EXCEPT ![p] = IF should_save(args[p]) THEN "save" ELSE "release"]
            /\ exit_code' = [exit_code EXCEPT ![p] = 0]
            /\ UNCHANGED pending
       ELSE /\ pc' = [pc EXCEPT ![p] = "pool"]
            /\ pending' = [pending EXCEPT ![p] = due[p]]
            /\ UNCHANGED exit_code
    /\ UNCHANGED <<shared, probe, started_at, fd>>
    /\ UNCHANGED <<args, lock_path, config, state, idx, due, running, done, results,
                   ran, wrote>>

\* the pool of invocation p is open: main is in the as_completed loop, or an
\* exception has left the loop and the pool's shutdown waits for the workers,
\* which go on with what was submitted
InPool(p) == pc[p] \in {"pool", "shutdown"}

\* the sequence s without its i-th element
Without(s, i) == SubSeq(s, 1, i - 1) \o SubSeq(s, i + 1, Len(s))

\* the submitted jobs that workers have in hand and have not begun: the
\* workers take jobs from the queue in submission order, max_workers at a
\* time, and each goes on to line 428 at its own pace
InHand(p) ==
    LET free == max_workers_of(args[p], due[p]) - Cardinality(running[p])
    IN  {i \in DOMAIN pending[p] : i <= free}

\* a worker begins the job it has in hand: started = iso(now_utc())
StartJob(p) ==
    /\ InPool(p)
    /\ \E i \in InHand(p) :
          LET j == pending[p][i]
          IN  /\ running' = [running EXCEPT ![p] =
                               @ \cup {[task_id |-> j[1], cmd |-> j[2],
                                        started |-> iso(now_utc), spawned |-> FALSE]}]
              /\ pending' = [pending EXCEPT ![p] = Without(@, i)]
    /\ UNCHANGED <<shared, probe, started_at, fd>>
    /\ UNCHANGED <<pc, args, lock_path, config, state, idx, due, done, results,
                   exit_code, ran, wrote>>

\* run_command: subprocess.run starts the command of job j, some time after
\* the worker has read the clock (not on a dry run, where run_command returns
\* before it)
SpawnJob(p, j) ==
    /\ InPool(p)
    /\ j \in running[p]
    /\ ~j.spawned
    /\ ~args[p].dry_run
    /\ ~spawn_fails(j.cmd)
    /\ running' = [running EXCEPT ![p] = (@ \ {j}) \cup {[j EXCEPT !.spawned = TRUE]}]
    /\ ran' = [ran EXCEPT ![p][j.task_id] = @ + 1]
    /\ started_at' = [started_at EXCEPT ![j.task_id] = [at |-> now, n |-> @.n + 1]]
    /\ UNCHANGED <<shared, probe, fd>>
    /\ UNCHANGED <<pc, args, lock_path, config, state, idx, due, pending, done, results,
                   exit_code, wrote>>

\* a worker that writes the record of its task itself
FinishJob_writes(p, j, rc) ==
    /\ InPool(p)
    /\ j \in running[p]
    /\ j.spawned \/ args[p].dry_run
    /\ rc \in run_command(j.cmd, args[p].dry_run)
    /\ running' = [running EXCEPT ![p] = @ \ {j}]
    /\ LET r == [task_id |-> j.task_id, rc |-> rc, started |-> j.started,
                 finished |-> iso(now_utc), raised |-> FALSE]
       IN  /\ done' = [done EXCEPT ![p] = @ \cup {r}]
           /\ state' = [state EXCEPT ![p] =
                          Put(@, j.task_id, update_entry(@[j.task_id], r))]
    /\ UNCHANGED <<shared, probe, started_at, fd>>
    /\ UNCHANGED <<pc, args, lock_path, config, idx, due, pending, results,
                   exit_code, ran, wrote>>

\* the command has returned rc (on a dry run run_command returns 0 at once):
\* finished = iso(now_utc()), the future is done
FinishJob(p, j, rc) ==
    /\ InPool(p)
    /\ j \in running[p]
    /\ j.spawned \/ args[p].dry_run
    /\ rc \in run_command(j.cmd, args[p].dry_run)
    /\ running' = [running EXCEPT ![p] = @ \ {j}]
    /\ done' = [done EXCEPT ![p] =
                  @ \cup {[task_id |-> j.task_id, rc |-> rc, started |-> j.started,
                           finished |-> iso(now_utc), raised |-> FALSE]}]
    /\ UNCHANGED <<shared, probe, started_at, fd>>
    /\ UNCHANGED <<pc, args, lock_path, config, state, idx, due, pending, results,
                   exit_code, ran, wrote>>

\* the finished futures as_completed has not handed over yet
Uncollected(p) == {r \in done[p] : \A i \in DOMAIN results[p] : results[p][i] # r}

\* a controller that moves on with the first result it is handed
Gather_early(p, r) ==
    /\ pc[p] = "pool"
    /\ r \in Uncollected(p)
    /\ results' = [results EXCEPT ![p] = Append(@, r)]
    /\ pc' = [pc EXCEPT ![p] = "apply"]
    /\ UNCHANGED <<shared, probe, started_at, fd>>
    /\ UNCHANGED <<args, lock_path, config, state, idx, due, pending, running, done,
                   exit_code, ran, wrote>>

\* one pass of the as_completed loop: a finished future r is handed over and
\* results.append(fut.result()) takes its tuple, while the other workers go
\* on.  After the last future the loop and the pool end.  A future that holds
\* an exception raises it out of the loop, into the pool's shutdown
Gather(p, r) ==
    /\ pc[p] = "pool"
    /\ r \in Uncollected(p)
    /\ IF r.raised
       THEN /\ pc' = [pc EXCEPT ![p] = "shutdown"]
            /\ UNCHANGED results
       ELSE /\ results' = [results EXCEPT ![p] = Append(@, r)]
            /\ pc' = [pc EXCEPT ![p] =
                        IF Len(results[p]) + 1 = Len(due[p]) THEN "apply" ELSE "pool"]
    /\ UNCHANGED <<shared, probe, started_at, fd>>
    /\ UNCHANGED <<args, lock_path, config, state, idx, due, pending, running, done,
                   exit_code, ran, wrote>>

\* run_command raises in the worker: the future holds the exception instead
\* of a (task_id, rc, started, finished) tuple
JobRaises(p, j) ==
    /\ InPool(p)
    /\ j \in running[p]
    /\ ~j.spawned
    /\ ~args[p].dry_run
    /\ spawn_fails(j.cmd)
    /\ running' = [running EXCEPT ![p] = @ \ {j}]
    /\ done' = [done EXCEPT ![p] =
                  @ \cup {[task_id |-> j.task_id, rc |-> 1, started |-> j.started,
                           finished |-> None, raised |-> TRUE]}]
    /\ UNCHANGED <<shared, probe, started_at, fd>>
    /\ UNCHANGED <<pc, args, lock_path, config, state, idx, due, pending, results,
                   exit_code, ran, wrote>>

\* the with block is left on an exception: the pool has waited for every
\* submitted job, the exception goes on to the finally clause and the
\* interpreter exits with 1
Shutdown(p) ==
    /\ pc[p] = "shutdown"
    /\ pending[p] = <<>>
    /\ running[p] = {}
    /\ pc' = [pc EXCEPT ![p] = "release"]
    /\ exit_code' = [exit_code EXCEPT ![p] = 1]
    /\ UNCHANGED <<shared, probe, started_at, fd>>
    /\ UNCHANGED <<args, lock_path, config, state, idx, due, pending, running, done,
                   results, ran, wrote>>

\* the results are applied to tasks_state (not on a dry run)
Apply(p) ==
    /\ pc[p] = "apply"
    /\ IF args[p].dry_run
       THEN /\ exit_code' = [exit_code EXCEPT ![p] = 0]
            /\ UNCHANGED state
       ELSE LET r == apply_results(results[p], state[p], 0)
            IN  /\ state' = [state EXCEPT ![p] = r.tasks]
                /\ exit_code' = [exit_code EXCEPT ![p] = r.exit_code]
    /\ pc' = [pc EXCEPT ![p] = IF should_save(args[p]) THEN "save" ELSE "release"]
    /\ UNCHANGED <<shared, probe, started_at, fd>>
    /\ UNCHANGED <<args, lock_path, config, idx, due, pending, running, done, results,
                   ran, wrote>>

\* the state file itself opened for writing
SaveTmp_in_place(p) ==
    /\ pc[p] = "save"
    /\ stateFile' = PartialFile
    /\ fd' = [fd EXCEPT ![p] = "state"]
    /\ pc' = [pc EXCEPT ![p] = "dump"]
    /\ UNCHANGED <<now, lockFile, tmpFile, configFile, world, crontab, ticksLeft, runsLeft, probe, started_at>>
    /\ UNCHANGED <<args, lock_path, config, state, idx, due, pending, running, done,
                   results, exit_code, ran, wrote>>

\* save_state: open(tmp, "w") creates state_path + ".tmp", or truncates the
\* file that is there, which other invocations may have open too
SaveTmp(p) ==
    /\ pc[p] = "save"
    /\ tmpFile' = PartialFile
    /\ fd' = [fd EXCEPT ![p] = "tmp"]
    /\ pc' = [pc EXCEPT ![p] = "dump"]
    /\ UNCHANGED <<now, lockFile, stateFile, configFile, world, crontab, ticksLeft, runsLeft, probe, started_at>>
    /\ UNCHANGED <<args, lock_path, config, state, idx, due, pending, running, done,
                   results, exit_code, ran, wrote>>

\* save_state: json.dump(state, f) and the close of f: the text goes to the
\* file that was opened, wherever it is by now.  With one writer that is the
\* temporary file, empty until then.  When another invocation has moved the
\* file to the state path meanwhile the text lands there, and when that file
\* has been replaced in turn the text is lost with it.
SaveDump(p) ==
    /\ pc[p] = "dump"
    /\ IF fd[p] = "tmp"
       THEN tmpFile' \in write_text(tmpFile, state[p]) /\ UNCHANGED stateFile
       ELSE IF fd[p] = "state"
       THEN stateFile' \in write_text(stateFile, state[p]) /\ UNCHANGED tmpFile
       ELSE UNCHANGED <<stateFile, tmpFile>>
    /\ fd' = [fd EXCEPT ![p] = "none"]
    /\ pc' = [pc EXCEPT ![p] = "replace"]
    /\ UNCHANGED <<now, lockFile, configFile, world, crontab, ticksLeft, runsLeft, probe, started_at>>
    /\ UNCHANGED <<args, lock_path, config, state, idx, due, pending, running, done,
                   results, exit_code, ran, wrote>>

\* save_state: open or json.dump raises OSError; what was written stays
SaveFails(p) ==
    /\ pc[p] \in {"save", "dump"}
    /\ "io" \in world.faults
    /\ pc' = [pc EXCEPT ![p] = "release"]
    /\ exit_code' = [exit_code EXCEPT ![p] = 1]
    /\ fd' = [fd EXCEPT ![p] = "none"]
    /\ UNCHANGED <<shared, probe, started_at>>
    /\ UNCHANGED <<args, lock_path, config, state, idx, due, pending, running, done,
                   results, ran, wrote>>

\* save_state: os.replace(tmp, path), then sys.exit(exit_code): the file at
\* the temporary path, with whoever has it open, is now at the state path and
\* the file that was there is gone; with the temporary file gone os.replace
\* raises and the interpreter exits with 1
SaveReplace(p) ==
    /\ pc[p] = "replace"
    /\ IF tmpFile.k # "missing"
       THEN /\ stateFile' = tmpFile
            /\ tmpFile' = MissingFile
            /\ fd' = [q \in Procs |-> IF fd[q] = "tmp" THEN "state"
                                      ELSE IF fd[q] = "state" THEN "unlinked"
                                      ELSE fd[q]]
            /\ wrote' = [wrote EXCEPT ![p] = @ + 1]
            /\ UNCHANGED exit_code
       ELSE /\ exit_code' = [exit_code EXCEPT ![p] = 1]
            /\ UNCHANGED <<stateFile, tmpFile, wrote, fd>>
    /\ pc' = [pc EXCEPT ![p] = "release"]
    /\ UNCHANGED <<now, lockFile, configFile, world, crontab, ticksLeft, runsLeft, probe, started_at>>
    /\ UNCHANGED <<args, lock_path, config, state, idx, due, pending, running, done,
                   results, ran>>

\* finally: release_lock(lock_path); the process ends and its memory is gone
Release(p) ==
    /\ pc[p] = "release"
    /\ lockFile' = release_lock(lock_path[p], lockFile)
    /\ pc' = [pc EXCEPT ![p] = "exited"]
    /\ args' = [args EXCEPT ![p] = NoArgs]
    /\ lock_path' = [lock_path EXCEPT ![p] = NoPath]
    /\ config' = [config EXCEPT ![p] = <<>>]
    /\ state' = [state EXCEPT ![p] = NoTasks]
    /\ idx' = [idx EXCEPT ![p] = 1]
    /\ due' = [due EXCEPT ![p] = <<>>]
    /\ pending' = [pending EXCEPT ![p] = <<>>]
    /\ running' = [running EXCEPT ![p] = {}]
    /\ done' = [done EXCEPT ![p] = {}]
    /\ results' = [results EXCEPT ![p] = <<>>]
    /\ ran' = [ran EXCEPT ![p] = NoRuns]
    /\ wrote' = [wrote EXCEPT ![p] = 0]
    /\ UNCHANGED <<now, stateFile, tmpFile, configFile, world, crontab, ticksLeft, runsLeft, probe, started_at, fd>>
    /\ UNCHANGED exit_code

\* the process is killed: no finally clause runs, its memory is gone, the
\* files stay as they are
Crash(p) ==
    /\ pc[p] \notin {"idle", "exited"}
    /\ "kill" \in world.faults
    /\ pc' = [pc EXCEPT ![p] = "exited"]
    /\ exit_code' = [exit_code EXCEPT ![p] = 137]
    /\ args' = [args EXCEPT ![p] = NoArgs]
    /\ lock_path' = [lock_path EXCEPT ![p] = NoPath]
    /\ config' = [config EXCEPT ![p] = <<>>]
    /\ state' = [state EXCEPT ![p] = NoTasks]
    /\ idx' = [idx EXCEPT ![p] = 1]
    /\ due' = [due EXCEPT ![p] = <<>>]
    /\ pending' = [pending EXCEPT ![p] = <<>>]
    /\ running' = [running EXCEPT ![p] = {}]
    /\ done' = [done EXCEPT ![p] = {}]
    /\ results' = [results EXCEPT ![p] = <<>>]
    /\ ran' = [ran EXCEPT ![p] = NoRuns]
    /\ wrote' = [wrote EXCEPT ![p] = 0]
    /\ fd' = [fd EXCEPT ![p] = "none"]
    /\ UNCHANGED <<shared, probe, started_at>>

\* the next step of invocation p reads the clock
ReadsClock(p) ==
    \/ pc[p] \in {"acquire", "check_age", "retry"}
    \/ pc[p] = "decide" /\ idx[p] <= Len(config[p])
    \/ InPool(p) /\ (pending[p] # <<>> \/ running[p] # {})

\* time passes; an advance is taken when some invocation is about to read the
\* clock (the other steps do not depend on it)
Tick(d) ==
    /\ ticksLeft > 0
    /\ \E p \in Procs : ReadsClock(p)
    /\ ticksLeft' = ticksLeft - 1
    /\ now' = now + d
    /\ UNCHANGED <<lockFile, stateFile, tmpFile, configFile, world, crontab, runsLeft, locals, probe, started_at>>

Next ==
    \/ \E p \in Procs : \E a \in ArgChoices : Start(p, a)
    \/ \E p \in Procs : AcquireFirst(p)
    \/ \E p \in Procs : CheckAge(p)
    \/ \E p \in Procs : RemoveStale(p)
    \/ \E p \in Procs : AcquireRetry(p)
    \/ \E p \in Procs : ExitNoLock(p)
    \/ \E p \in Procs : Load(p)
    \/ \E p \in Procs : Decide(p)
    \/ \E p \in Procs : Dispatch(p)
    \/ \E p \in Procs : StartJob(p)
    \/ \E p \in Procs : \E j \in running[p] : SpawnJob(p, j)
    \/ \E p \in Procs : \E j \in running[p] : \E rc \in RCs : FinishJob(p, j, rc)
    \/ \E p \in Procs : \E r \in done[p] : Gather(p, r)
    \/ \E p \in Procs : Apply(p)
    \/ \E p \in Procs : SaveTmp(p)
    \/ \E p \in Procs : SaveDump(p)
    \/ \E p \in Procs : SaveReplace(p)
    \/ \E p \in Procs : Release(p)
    \/ \E d \in TickSteps : Tick(d)

\* one call of is_due
CallIsDue ==
    /\ probe.result = "unset"
    /\ probe' = [probe EXCEPT !.result = IF is_due(probe.ref, probe.freq) THEN "due" ELSE "not_due"]
    /\ UNCHANGED <<shared, locals, started_at>>

\* with nothing ever due the pool is never used
NextLock ==
    \/ \E p \in Procs : \E a \in ArgChoices : Start(p, a)
    \/ \E p \in Procs : AcquireFirst(p)
    \/ \E p \in Procs : CheckAge(p)
    \/ \E p \in Procs : RemoveStale(p)
    \/ \E p \in Procs : AcquireRetry(p)
    \/ \E p \in Procs : ExitNoLock(p)
    \/ \E p \in Procs : Load(p)
    \/ \E p \in Procs : Decide(p)
    \/ \E p \in Procs : Dispatch(p)
    \/ \E p \in Procs : SaveTmp(p)
    \/ \E p \in Procs : SaveDump(p)
    \/ \E p \in Procs : SaveReplace(p)
    \/ \E p \in Procs : Release(p)
    \/ \E d \in TickSteps : Tick(d)

NextDue == CallIsDue

\* the same command listed with and without the flag
JobBPlain == [freq |-> "hourly", cmd |-> "b", requires |-> <<>>]

\* the configs the user moves between
EditedConfigs == Configs \cup {<<JobBPlain, JobB>>, <<JobB, JobBPlain>>, <<JobA, JobA>>}

\* between two invocations the user rewrites the config file
EditConfig(c) ==
    /\ \A p \in Procs : pc[p] \in {"idle", "exited"}
    /\ \E p \in Procs : runsLeft[p] > 0
    /\ c \in EditedConfigs
    /\ c # configFile
    /\ configFile' = c
    /\ UNCHANGED <<now, lockFile, stateFile, tmpFile, world, crontab, ticksLeft, runsLeft,
                   locals, probe, started_at>>

\* sequential invocations, none contended, on a machine that is offline, with
\* the config edited in between
InitEdit ==
    /\ now = 0
    /\ lockFile = NoMarker
    /\ configFile \in EditedConfigs
    /\ stateFile = MissingFile
    /\ tmpFile = MissingFile
    /\ world \in {w \in Worlds : ~w.internet}
    /\ crontab = {a \in ArgChoices : a.max_workers = 0}
    /\ ticksLeft = MaxTicks
    /\ runsLeft = [p \in Procs |-> IF p = 1 THEN MaxRuns ELSE 0]
    /\ InitLocals
    /\ probe = NoProbe

NextEdit ==
    \/ \E p \in Procs : \E a \in ArgChoices : Start(p, a)
    \/ \E p \in Procs : AcquireFirst(p)
    \/ \E p \in Procs : Load(p)
    \/ \E p \in Procs : Decide(p)
    \/ \E p \in Procs : Dispatch(p)
    \/ \E p \in Procs : StartJob(p)
    \/ \E p \in Procs : \E j \in running[p] : SpawnJob(p, j)
    \/ \E p \in Procs : \E j \in running[p] : \E rc \in RCs : FinishJob(p, j, rc)
    \/ \E p \in Procs : \E r \in done[p] : Gather(p, r)
    \/ \E p \in Procs : Apply(p)
    \/ \E p \in Procs : SaveTmp(p)
    \/ \E p \in Procs : SaveDump(p)
    \/ \E p \in Procs : SaveReplace(p)
    \/ \E p \in Procs : Release(p)
    \/ \E d \in TickSteps : Tick(d)
    \/ \E c \in EditedConfigs : EditConfig(c)

SpecEdit == InitEdit /\ [][NextEdit]_vars

\* sequential invocations on a machine where something goes wrong, starting
\* from a state file that is missing, not JSON, JSON of the wrong shape, or
\* JSON with a record that is a string
InitFail ==
    /\ now = 0
    /\ lockFile = NoMarker
    /\ configFile \in {<<JobA, JobB>>, <<JobC, JobA>>}
    /\ stateFile \in {MissingFile, CorruptFile, WrongShapeFile, BadRecordFile}
    /\ tmpFile = MissingFile
    /\ world \in FaultyWorlds
    /\ crontab = {NoArgs}
    /\ ticksLeft = MaxTicks
    /\ runsLeft = [p \in Procs |-> IF p = 1 THEN MaxRuns ELSE 0]
    /\ InitLocals
    /\ probe = NoProbe

NextFail ==
    \/ \E p \in Procs : \E a \in ArgChoices : Start(p, a)
    \/ \E p \in Procs : AcquireFirst(p)
    \/ \E p \in Procs : CheckAge(p)
    \/ \E p \in Procs : RemoveStale(p)
    \/ \E p \in Procs : AcquireRetry(p)
    \/ \E p \in Procs : ExitNoLock(p)
    \/ \E p \in Procs : Load(p)
    \/ \E p \in Procs : Decide(p)
    \/ \E p \in Procs : Dispatch(p)
    \/ \E p \in Procs : StartJob(p)
    \/ \E p \in Procs : \E j \in running[p] : SpawnJob(p, j)
    \/ \E p \in Procs : \E j \in running[p] : \E rc \in RCs : FinishJob(p, j, rc)
    \/ \E p \in Procs : \E j \in running[p] : JobRaises(p, j)
    \/ \E p \in Procs : Shutdown(p)
    \/ \E p \in Procs : \E r \in done[p] : Gather(p, r)
    \/ \E p \in Procs : Apply(p)
    \/ \E p \in Procs : SaveTmp(p)
    \/ \E p \in Procs : SaveDump(p)
    \/ \E p \in Procs : SaveFails(p)
    \/ \E p \in Procs : SaveReplace(p)
    \/ \E p \in Procs : Release(p)
    \/ \E p \in Procs : Crash(p)
    \/ \E d \in TickSteps : Tick(d)

SpecFail == InitFail /\ [][NextFail]_vars

\* ------------------------------------------------------------ progress
\* one step of invocation p, from acquire_lock to the end of the finally clause
Step(p) ==
    \/ AcquireFirst(p)
    \/ CheckAge(p)
    \/ RemoveStale(p)
    \/ AcquireRetry(p)
    \/ ExitNoLock(p)
    \/ Load(p)
    \/ Decide(p)
    \/ Dispatch(p)
    \/ StartJob(p)
    \/ \E j \in running[p] : SpawnJob(p, j)
    \/ \E j \in running[p] : \E rc \in RCs : FinishJob(p, j, rc)
    \/ \E r \in done[p] : Gather(p, r)
    \/ Apply(p)
    \/ SaveTmp(p)
    \/ SaveDump(p)
    \/ SaveReplace(p)
    \/ Release(p)

\* a started process keeps executing, its probes return and the commands it
\* has dispatched finish; cron need not fire and the clock need not advance
Fairness == \A p \in Procs : WF_vars(Step(p))

\* cron fires invocations one after the other within one hour, from no state
\* file and possibly over a marker left behind, fresh or stale: two commands
\* that are due, or one that waits for the network
InitLive ==
    /\ now = 0
    /\ lockFile \in {NoMarker, FreshLeftover, LeftoverMarker}
    /\ configFile \in {<<JobA, JobB>>, <<JobC>>}
    /\ stateFile = MissingFile
    /\ tmpFile = MissingFile
    /\ world \in Worlds
    /\ crontab = ArgChoices
    /\ ticksLeft = 0
    /\ runsLeft = [p \in Procs |-> IF p = 1 THEN MaxRuns ELSE 0]
    /\ InitLocals
    /\ probe = NoProbe

NextLive ==
    \/ \E p \in Procs : \E a \in ArgChoices : Start(p, a)
    \/ \E p \in Procs : Step(p)

SpecLive == InitLive /\ [][NextLive]_vars /\ Fairness

\* ------------------------------------------------------------ the pool
\* three commands of three task ids, all due on a machine that is online
PoolConfig == <<JobA, JobB, JobC>>

\* command lines with --max-workers below, at and above the number of tasks
PoolArgs == [dry_run : BOOLEAN, max_workers : {0, 1, 2}]

\* --max-workers values and due list lengths the pool size is computed for:
\* no override, a negative one, small ones and one above the cap; lengths
\* from 0 to MaxOver above the cap
PoolOverrides == {0 - 1, 0, 1, 2, PoolCap + 1}
PoolLengths == 0..(PoolCap + MaxOver)

\* a due list of n entries
DueOfLen(n) == [i \in 1..n |-> <<TaskId("hourly", "a"), "a">>]

\* either cron fires invocations one after the other on PoolConfig, or the
\* pool size is computed for one pair of override and due list length
InitPool ==
    /\ now = 0
    /\ lockFile = NoMarker
    /\ configFile = PoolConfig
    /\ stateFile = MissingFile
    /\ tmpFile = MissingFile
    /\ world \in {w \in Worlds : w.internet}
    /\ ticksLeft = 0
    /\ InitLocals
    /\ \/ /\ crontab = PoolArgs
          /\ runsLeft = [p \in Procs |-> IF p = 1 THEN MaxRuns ELSE 0]
          /\ probe = NoProbe
       \/ /\ crontab = {}
          /\ runsLeft = [p \in Procs |-> 0]
          /\ probe \in [max_workers : PoolOverrides, due_len : PoolLengths, result : {None}]

\* one evaluation of the pool size expression
CallMaxWorkers ==
    /\ "due_len" \in DOMAIN probe
    /\ probe.result = None
    /\ probe' = [probe EXCEPT !.result =
                    IntVal(max_workers_of([dry_run |-> FALSE, max_workers |-> probe.max_workers],
                                          DueOfLen(probe.due_len)))]
    /\ UNCHANGED <<shared, locals, started_at>>

NextPool ==
    \/ \E p \in Procs : \E a \in PoolArgs : Start(p, a)
    \/ \E p \in Procs : AcquireFirst(p)
    \/ \E p \in Procs : Load(p)
    \/ \E p \in Procs : Decide(p)
    \/ \E p \in Procs : Dispatch(p)
    \/ \E p \in Procs : StartJob(p)
    \/ \E p \in Procs : \E j \in running[p] : SpawnJob(p, j)
    \/ \E p \in Procs : \E j \in running[p] : \E rc \in RCs : FinishJob(p, j, rc)
    \/ \E p \in Procs : \E r \in done[p] : Gather(p, r)
    \/ \E p \in Procs : Apply(p)
    \/ \E p \in Procs : SaveTmp(p)
    \/ \E p \in Procs : SaveDump(p)
    \/ \E p \in Procs : SaveReplace(p)
    \/ \E p \in Procs : Release(p)
    \/ CallMaxWorkers

SpecPool == InitPool /\ [][NextPool]_vars

\* sequential invocations
Spec == Init /\ [][Next]_vars

\* overlapping invocations
SpecLock == InitLock /\ [][NextLock]_vars

\* calls of is_due
SpecDue == InitDue /\ [][NextDue]_vars

\* ------------------------------------------------------------ the claims
\* invocation p is between a successful acquire_lock and its release_lock
Holding(p) ==
    /\ lock_path[p] = LockPath
    /\ pc[p] \in {"load", "decide", "pool", "shutdown", "apply", "save", "dump", "replace", "release"}

\* C1: for one state path, under every interleaving of invocations, at most
\* one invocation at a time is between a successful acquire_lock and its
\* release_lock, i.e. at most one runner holds a valid (non-stale) token; no
\* marker an invocation creates is stale before the clock reaches StaleAfter
C1_AtMostOneHolder ==
    now < StaleAfter => Cardinality({p \in Procs : Holding(p)}) <= 1

\* invocation q faces the fresh marker of an invocation that holds the lock
FacesFreshLock(q) ==
    /\ lockFile.exists
    /\ now - lockFile.mtime < StaleAfter
    /\ \E p \in Procs \ {q} : Holding(p) /\ lockFile.pid = p

NoEffects ==
    /\ lockFile' = lockFile
    /\ stateFile' = stateFile
    /\ tmpFile' = tmpFile
    /\ ran' = ran
    /\ wrote' = wrote

\* C2: an invocation that finds the fresh marker of another, running one
\* gives up and exits with code 0; it executes no command, writes no state
\* file and leaves the marker where it is
C2_ContentionExitsCleanly ==
    [][\A q \in Procs :
          /\ (pc[q] = "check_age" /\ pc'[q] # "check_age" /\ FacesFreshLock(q))
                => (pc'[q] = "nolock" /\ NoEffects)
          /\ (pc[q] = "nolock" /\ pc'[q] # "nolock")
                => (pc'[q] = "exited" /\ exit_code'[q] = 0 /\ NoEffects)]_vars

\* the second invocation has exited; the first still holds its fresh marker
\* and nothing was written
C2_Witness ==
    \E p, q \in Procs :
        /\ p # q
        /\ pc[q] = "exited" /\ runsLeft[q] = 0 /\ exit_code[q] = 0
        /\ Holding(p) /\ lockFile.exists /\ lockFile.pid = p
        /\ now - lockFile.mtime < StaleAfter
        /\ stateFile = MissingFile

\* invocation p is about to take a pass of the loop over the jobs
AtJob(p) == pc[p] = "decide" /\ idx[p] <= Len(config[p])

\* invocation p takes that pass in this step
DecidesJob(p) == AtJob(p) /\ idx'[p] = idx[p] + 1

JobAt(p) == config[p][idx[p]]

TidAt(p) == TaskId(JobAt(p).freq, JobAt(p).cmd)

\* the record of task tid as the state file holds it
Persisted(tid) ==
    IF tid \in DOMAIN stateFile.tasks THEN stateFile.tasks[tid] ELSE NewEntry(tid[1], tid[2])

\* the record of task tid in the memory of p
InMemory(p, tid) ==
    IF tid \in DOMAIN state[p] THEN state[p][tid] ELSE NewEntry(tid[1], tid[2])

\* the last attempt of rec failed and lies less than one interval back
FailedWithinInterval(rec) ==
    /\ rec.last_status \notin {None, IntVal(0)}
    /\ rec.last_attempt.k = "iso"
    /\ now - rec.last_attempt.t < FREQS[rec.frequency]

\* the last success of rec is absent or at least one interval back
SuccessLongAgo(rec) ==
    \/ rec.last_success = None
    \/ rec.last_success.k = "iso" /\ now - rec.last_success.t >= FREQS[rec.frequency]

\* some entry of cfg for task tid carries the flag
DeclaresRerun(cfg, tid) ==
    \E i \in DOMAIN cfg :
        /\ TaskId(cfg[i].freq, cfg[i].cmd) = tid
        /\ \E n \in DOMAIN cfg[i].requires : cfg[i].requires[n] = "rerun_onfail"

\* requirement name r is unknown, or its probe says no
Fails(r) ==
    \/ r \notin {"internet", "ac_power", "battery"}
    \/ r = "internet" /\ ~world.internet
    \/ r = "ac_power" /\ world.ac_power # "on"
    \/ r = "battery" /\ world.ac_power # "off"

\* the failing requirements of job, the flag left aside
Unmet(job) == SelectSeq(job.requires, LAMBDA r : r # "rerun_onfail" /\ Fails(r))

\* C3: a task whose record says the last attempt failed, and that does not
\* declare rerun_onfail, is not put in the due list and is not executed by a
\* pass made less than one cadence interval after last_attempt, whether
\* last_success is absent or older than the interval
C3_FailedWaitsFullInterval ==
    [][\A p \in Procs :
          (/\ DecidesJob(p)
           /\ FailedWithinInterval(InMemory(p, TidAt(p)))
           /\ ~DeclaresRerun(config[p], TidAt(p)))
          => (TidAt(p) \notin seen(due'[p]) /\ ran'[p][TidAt(p)] = 0)]_vars

\* the loop is over: a task that failed less than an interval ago, with its
\* last success an interval back or absent, was left out
C3_Witness ==
    \E p \in Procs : \E i \in DOMAIN config[p] :
        LET tid == TaskId(config[p][i].freq, config[p][i].cmd)
        IN  /\ pc[p] = "decide" /\ idx[p] > Len(config[p])
            /\ ~args[p].dry_run
            /\ FailedWithinInterval(InMemory(p, tid))
            /\ SuccessLongAgo(InMemory(p, tid))
            /\ ~DeclaresRerun(config[p], tid)
            /\ tid \notin seen(due[p])

\* C4: a task that declares rerun_onfail is due on last_success alone: with
\* its last attempt failed less than an interval ago and its last success
\* absent or an interval old it enters the due list and, its requirements
\* being met, is executed; the flag is never reported as an unmet requirement
C4_RerunOnFailDueOnSuccess ==
    [][\A p \in Procs :
          /\ (/\ DecidesJob(p)
              /\ DeclaresRerun(<<JobAt(p)>>, TidAt(p))
              /\ FailedWithinInterval(InMemory(p, TidAt(p)))
              /\ SuccessLongAgo(InMemory(p, TidAt(p)))
              /\ Unmet(JobAt(p)) = <<>>)
             => TidAt(p) \in seen(due'[p])
          /\ DecidesJob(p)
             => LET note == state'[p][TidAt(p)].last_note
                IN  note.k = "skipped"
                       => \A n \in DOMAIN note.unmet : note.unmet[n] # "rerun_onfail"
          /\ (pc[p] = "pool" /\ pc'[p] = "apply" /\ ~args[p].dry_run)
             => \A tid \in seen(due[p]) : ran'[p][tid] = 1]_vars

\* a task with the flag, failed less than an interval ago, has been run again
C4_Witness ==
    \E p \in Procs : \E tid \in seen(due[p]) :
        /\ pc[p] = "apply"
        /\ ~args[p].dry_run
        /\ DeclaresRerun(config[p], tid)
        /\ FailedWithinInterval(InMemory(p, tid))
        /\ SuccessLongAgo(InMemory(p, tid))
        /\ ran[p][tid] = 1

\* C5: for every cadence and every reference, is_due returns true iff the
\* reference is absent, or is not a timestamp, or now minus the reference is
\* greater than or equal to the cadence interval
C5_DueIffAbsentOrElapsed ==
    probe.result \in {"due", "not_due"}
        => (probe.result = "due"
               <=> \/ probe.ref \in {None, EmptyStr}
                   \/ probe.ref.k # "iso"
                   \/ now - probe.ref.t >= FREQS[probe.freq])

\* is_due said yes with exactly one interval elapsed
C5_Witness ==
    /\ probe.result = "due"
    /\ probe.ref.k = "iso"
    /\ now - probe.ref.t = FREQS[probe.freq]

\* the entry invocation p is at is due by the clock and has a failing requirement
DueButUnmet(p) ==
    /\ DecidesJob(p)
    /\ is_due(ref_time(InMemory(p, TidAt(p)), DeclaresRerun(<<JobAt(p)>>, TidAt(p))),
              JobAt(p).freq)
    /\ Unmet(JobAt(p)) # <<>>

\* the pass changes last_note of the task, to the diagnostic, and nothing else
OnlyNoteSet(p) ==
    state'[p] = Put(state[p], TidAt(p),
                    [InMemory(p, TidAt(p)) EXCEPT !.last_note = SkippedNote(Unmet(JobAt(p)))])

C7_DryRunTouchesNothing ==
    [][\A p \in Procs :
          (pc[p] \notin {"idle", "exited"} /\ args[p].dry_run)
             => /\ stateFile' = stateFile
                /\ tmpFile' = tmpFile
                /\ ran'[p] = NoRuns
                /\ wrote'[p] = 0
                /\ (pc'[p] = "exited" => exit_code'[p] = 0)]_vars

\* a dry run with two tasks due is over, the state file as it was
C7_Witness ==
    \E p \in Procs :
        /\ pc[p] = "release"
        /\ args[p].dry_run
        /\ Len(due[p]) = 2
        /\ Len(results[p]) = 2
        /\ stateFile = JsonFile(AfterSuccess(configFile))

\* C8: when a non-dry run persists its state, every executed task has a
\* result (rc, start, finish) and its persisted record has last_attempt =
\* start, last_status = rc, last_note = the finish marker, last_success =
\* finish if rc = 0 and the pre-run last_success if rc is non-zero
C8_ResultsReconciled ==
    [][\A p \in Procs :
          (pc[p] = "replace" /\ pc'[p] = "release" /\ wrote'[p] = wrote[p] + 1)
             => /\ \A tid \in TaskIds :
                      ran[p][tid] > 0
                         => \E i \in DOMAIN results[p] : results[p][i].task_id = tid
                /\ \A i \in DOMAIN results[p] :
                      LET r == results[p][i]
                          rec == stateFile'.tasks[r.task_id]
                      IN  /\ ran[p][r.task_id] = 1
                          /\ rec.last_attempt = r.started
                          /\ rec.last_status = IntVal(r.rc)
                          /\ rec.last_note = FinishedNote(r.finished)
                          /\ r.rc = 0 => rec.last_success = r.finished
                          /\ r.rc # 0 => rec.last_success = Persisted(r.task_id).last_success]_vars

\* a run with one success and one failure has been persisted; the failed
\* task keeps the last_success it had
C8_Witness ==
    \E p \in Procs : \E i, j \in DOMAIN results[p] :
        /\ pc[p] = "release" /\ wrote[p] = 1
        /\ results[p][i].rc = 0
        /\ results[p][j].rc # 0
        /\ stateFile.tasks[results[p][j].task_id].last_success.k = "iso"
        /\ stateFile.tasks[results[p][j].task_id].last_success # results[p][j].finished

\* the first non-zero code of the result list rs, 0 if there is none
FirstNonZero(rs) ==
    IF \A i \in DOMAIN rs : rs[i].rc = 0 THEN 0
    ELSE rs[CHOOSE i \in DOMAIN rs :
                rs[i].rc # 0 /\ \A j \in 1..(i - 1) : rs[j].rc = 0].rc

\* C9: a run that acquired the lock exits with 0 if no task ran or every
\* executed task returned 0, otherwise with the first non-zero code in the
\* order the results are applied; every result is applied, those after a
\* non-zero code included
C9_ExitCodeFirstNonZero ==
    \A p \in Procs :
        /\ (pc[p] = "release" /\ lock_path[p] = LockPath)
              => exit_code[p] = FirstNonZero(results[p])
        /\ (pc[p] \in {"save", "dump", "replace", "release"} /\ ~args[p].dry_run)
              => \A i \in DOMAIN results[p] :
                    state[p][results[p][i].task_id].last_status = IntVal(results[p][i].rc)

\* two tasks failed with different codes; the run exits with the first
C9_Witness ==
    \E p \in Procs :
        /\ pc[p] = "release"
        /\ Len(results[p]) = 2
        /\ results[p][1].rc # 0
        /\ results[p][2].rc # 0
        /\ results[p][1].rc # results[p][2].rc
        /\ exit_code[p] = results[p][1].rc

\* the results are being applied
Applies(p) == pc[p] = "apply" /\ pc'[p] # "apply" /\ ~args[p].dry_run

\* at most one non-zero code among the results rs
OneFailureCode(rs) ==
    \A r1, r2 \in rs : (r1.rc # 0 /\ r2.rc # 0) => r1.rc = r2.rc

\* C10 as stated: for a fixed due-set and fixed result codes the exit code
\* and the final per-task records are the same for every order in which the
\* workers complete
C10_OrderInsensitive ==
    [][\A p \in Procs :
          Applies(p)
             => \A o \in Orders(done[p]) :
                   LET alt == apply_results(o, state[p], 0)
                   IN  /\ state'[p] = alt.tasks
                       /\ exit_code'[p] = alt.exit_code]_vars

\* C10: for a fixed due-set and fixed result codes the final per-task
\* records are the same for every completion order, and so is whether the
\* exit code is zero; the exit code itself is the same for every order when
\* the failed tasks share one code
C10_RecordsOrderInsensitive ==
    [][\A p \in Procs :
          Applies(p)
             => \A o \in Orders(done[p]) :
                   LET alt == apply_results(o, state[p], 0)
                   IN  /\ state'[p] = alt.tasks
                       /\ exit_code'[p] = 0 <=> alt.exit_code = 0
                       /\ OneFailureCode(done[p]) => exit_code'[p] = alt.exit_code]_vars

\* two results with different non-zero codes have been applied, both records
\* updated
C10_Witness ==
    \E p \in Procs :
        /\ pc[p] = "save"
        /\ Len(results[p]) = 2
        /\ results[p][1].rc # 0
        /\ results[p][2].rc # 0
        /\ results[p][1].rc # results[p][2].rc
        /\ \A i \in 1..2 :
              state[p][results[p][i].task_id].last_attempt = results[p][i].started

\* the timestamp the due decision of job is to be made against, given rec
RefOf(rec, job) ==
    IF /\ ~DeclaresRerun(<<job>>, TaskId(job.freq, job.cmd))
       /\ rec.last_status \notin {None, IntVal(0)}
       /\ rec.last_attempt.k = "iso"
    THEN rec.last_attempt
    ELSE rec.last_success

\* the entry invocation p is at is not due: less than one interval has
\* elapsed since its reference
NotDueEntry(p) ==
    LET ref == RefOf(InMemory(p, TidAt(p)), JobAt(p))
    IN  ref.k = "iso" /\ now - ref.t < FREQS[JobAt(p).freq]

\* the two records agree on last_success, last_attempt and last_status
SameHistory(r1, r2) ==
    /\ r1.last_success = r2.last_success
    /\ r1.last_attempt = r2.last_attempt
    /\ r1.last_status = r2.last_status

\* invocation p replaces the state file in this step
Persists(p) == pc[p] = "replace" /\ wrote'[p] = wrote[p] + 1

\* C11: a pass over an entry that is not due adds nothing to the due list,
\* executes nothing and leaves last_success, last_attempt, last_status and
\* last_note of the record as they were, frequency and cmd being set to the
\* config's values; a task that is not in the due list is not executed and
\* is persisted with the history it had before the run
C11_NotDueSkipped ==
    [][\A p \in Procs :
          /\ (DecidesJob(p) /\ NotDueEntry(p))
                => /\ due'[p] = due[p]
                   /\ ran'[p] = ran[p]
                   /\ state'[p] = Put(state[p], TidAt(p),
                                      [InMemory(p, TidAt(p)) EXCEPT
                                          !.frequency = JobAt(p).freq,
                                          !.cmd = JobAt(p).cmd])
          /\ Persists(p)
                => \A tid \in DOMAIN stateFile'.tasks :
                      tid \notin seen(due[p])
                         => /\ ran[p][tid] = 0
                            /\ SameHistory(stateFile'.tasks[tid], Persisted(tid))
                            /\ stateFile'.tasks[tid].frequency = tid[1]
                            /\ stateFile'.tasks[tid].cmd = tid[2]]_vars

\* a run in which a task that succeeded less than an interval ago was found
\* not due has been persisted, its record as before
C11_Witness ==
    \E p \in Procs : \E i \in DOMAIN config[p] :
        LET tid == TaskId(config[p][i].freq, config[p][i].cmd)
        IN  /\ pc[p] = "release" /\ wrote[p] = 1
            /\ tid \notin seen(due[p])
            /\ Unmet(config[p][i]) = <<>>
            /\ Persisted(tid).last_status = IntVal(0)
            /\ Persisted(tid).last_success.k = "iso"
            /\ now - Persisted(tid).last_success.t < FREQS[tid[1]]
            /\ Persisted(tid).last_note = FinishedNote(Persisted(tid).last_success)

\* the Task IDs of the config cfg
TidsOf(cfg) == {TaskId(cfg[i].freq, cfg[i].cmd) : i \in DOMAIN cfg}

\* C12: the state file changes only when a run persists its state; what a
\* non-dry run persists holds every record the file held before and a record
\* for every Task ID of the run's config, and every non-dry run that
\* completes has persisted: no record is ever removed, and every Task ID
\* configured in some completed non-dry run has one
C12_RecordsKept ==
    [][/\ stateFile' # stateFile => \E p \in Procs : Persists(p)
       /\ \A p \in Procs :
             /\ Persists(p)
                   => /\ DOMAIN stateFile.tasks \subseteq DOMAIN stateFile'.tasks
                      /\ TidsOf(config[p]) \subseteq DOMAIN stateFile'.tasks
             /\ (pc[p] = "release" /\ pc'[p] = "exited" /\ ~args[p].dry_run)
                   => wrote[p] = 1]_vars

\* a run has persisted a record of a task its config no longer lists, next
\* to the record of a task it skipped for an unmet requirement
C12_Witness ==
    \E p \in Procs : \E gone, skipped \in DOMAIN stateFile.tasks :
        /\ pc[p] = "release" /\ wrote[p] = 1
        /\ gone \notin TidsOf(config[p])
        /\ skipped \in TidsOf(config[p])
        /\ stateFile.tasks[skipped].last_note.k = "skipped"
        /\ stateFile.tasks[skipped].last_attempt = None

\* C13: within one run every Task ID is in the due list at most once and is
\* executed at most once, however many entries of the config carry it
C13_ExecutedAtMostOnce ==
    \A p \in Procs :
        /\ \A tid \in TaskIds : ran[p][tid] <= 1
        /\ \A i, j \in DOMAIN due[p] : due[p][i][1] = due[p][j][1] => i = j

\* two different entries of one Task ID, with and without the flag, were
\* both due with nothing unmet; the task has been executed once
C13_Witness ==
    \E p \in Procs :
        /\ pc[p] = "apply"
        /\ Len(config[p]) = 2
        /\ config[p][1] # config[p][2]
        /\ TidsOf(config[p]) = {TaskId(config[p][1].freq, config[p][1].cmd)}
        /\ Unmet(config[p][1]) = <<>> /\ Unmet(config[p][2]) = <<>>
        /\ Persisted(TaskId(config[p][1].freq, config[p][1].cmd)).last_success = None
        /\ ran[p][TaskId(config[p][1].freq, config[p][1].cmd)] = 1

\* C14: the file at the state path changes only in the os.replace step of
\* save_state, and then to the complete new snapshot: whatever step of
\* save_state the process is killed at, and whenever the path is read, it
\* holds the complete previous snapshot or the complete new one
C14_AtomicSave ==
    [][stateFile' # stateFile
          => \E p \in Procs :
                /\ pc[p] = "replace"
                /\ tmpFile = JsonFile(state[p])
                /\ stateFile' = JsonFile(state[p])]_vars

\* the process was killed while json.dump was writing the temporary file;
\* the state path still holds the snapshot of the run before
C14_Witness ==
    \E p \in Procs :
        /\ pc[p] = "exited" /\ exit_code[p] = 137
        /\ tmpFile = PartialFile
        /\ stateFile.k = "json"
        /\ DOMAIN stateFile.tasks = TidsOf(configFile)

\* invocation p is killed in this step
Killed(p) == pc[p] \notin {"idle", "exited"} /\ pc'[p] = "exited" /\ exit_code'[p] = 137

\* C15: when the state file is missing or its content is not the expected
\* document (not JSON, or JSON of another shape), the run starts from the
\* empty snapshot, with no history for any task, and goes on to the due
\* decisions instead of aborting
C15_CorruptStateNotFatal ==
    [][\A p \in Procs :
          (/\ pc[p] = "load" /\ pc'[p] # "load" /\ ~Killed(p)
           /\ stateFile.k \in {"missing", "corrupt", "other"})
             => (pc'[p] = "decide" /\ state'[p] = NoTasks /\ exit_code'[p] = 0)]_vars

\* C16: however a run that acquired the lock ends inside the process (after
\* saving, with nothing due, or on an exception raised while loading, in the
\* workers or while saving), it ends through the finally clause and the lock
\* marker is gone when the process has exited
C16_LockReleasedOnExit ==
    [][\A p \in Procs :
          (lock_path[p] = LockPath /\ pc[p] # "exited" /\ pc'[p] = "exited" /\ ~Killed(p))
             => (pc[p] = "release" /\ ~lockFile'.exists)]_vars

\* a run has aborted on the state file and exited with 1; no marker is left
C16_Witness ==
    \E p \in Procs :
        /\ pc[p] = "exited" /\ exit_code[p] = 1
        /\ runsLeft[p] < MaxRuns
        /\ stateFile = WrongShapeFile
        /\ ~lockFile.exists

\* C17: a failure of one due task stays with that task: the run leaves the
\* pool only for the controller's pass over the results, and the results hold
\* an outcome for every task that was dispatched, so that each is recorded and
\* the state is saved
C17_TaskFailureContained ==
    [][\A p \in Procs :
          (pc[p] = "pool" /\ pc'[p] # "pool" /\ ~Killed(p))
             => /\ pc'[p] = "apply"
                /\ {results'[p][i].task_id : i \in DOMAIN results'[p]}
                      = {due[p][i][1] : i \in DOMAIN due[p]}]_vars

\* the probes of this machine raise when called
ProbeRaises == "probe" \in world.faults

\* the entry invocation p is at declares a registered requirement and is due
AtDueGatedJob(p) ==
    /\ AtJob(p)
    /\ \E i \in DOMAIN JobAt(p).requires : JobAt(p).requires[i] \in REQUIREMENTS
    /\ ~NotDueEntry(p)

\* C18: when the predicate of a registered requirement raises for a due
\* entry, the entry is skipped with the note naming the requirement and the
\* loop goes on with the next entry: nothing is added to the due list, the
\* exit code is untouched, and the loop is left only after the last entry,
\* for the pool or the save
C18_ProbeErrorDowngraded ==
    [][\A p \in Procs :
          /\ (ProbeRaises /\ AtDueGatedJob(p) /\ (idx'[p] # idx[p] \/ pc'[p] # pc[p]))
                => /\ pc'[p] = "decide" /\ idx'[p] = idx[p] + 1
                   /\ exit_code'[p] = exit_code[p]
                   /\ due'[p] = due[p]
                   /\ state'[p][TidAt(p)].last_note
                         = SkippedNote(reqs_of(JobAt(p).requires))
          /\ (ProbeRaises /\ stateFile # BadRecordFile
                /\ pc[p] = "decide" /\ pc'[p] # "decide")
                => (idx[p] > Len(config[p]) /\ pc'[p] \in {"pool", "save"})]_vars

\* a run on a machine whose probes raise has saved and reached the finally
\* clause: the gated task was not executed and carries the note on disk, the
\* task after it was executed
C18_Witness ==
    \E p \in Procs :
        /\ ProbeRaises /\ world.internet
        /\ configFile = <<JobC, JobA>>
        /\ pc[p] = "release" /\ exit_code[p] = 0 /\ wrote[p] >= 1
        /\ ran[p][TaskId("daily", "c")] = 0
        /\ ran[p][TaskId("hourly", "a")] >= 1
        /\ stateFile.k = "json"
        /\ TaskId("daily", "c") \in DOMAIN stateFile.tasks
        /\ stateFile.tasks[TaskId("daily", "c")].last_note = SkippedNote(<<"internet">>)

\* C19: while the pool is open no record of the run's snapshot changes: the
\* workers only hand back (task id, result code, start, finish), and the
\* record of a dispatched task changes only in the controller's pass over the
\* results, when every dispatched task has returned
C19_SingleWriter ==
    [][\A p \in Procs :
          /\ InPool(p) => state'[p] = state[p]
          /\ \A tid \in seen(due[p]) :
                (/\ pc[p] \in {"pool", "apply", "save", "dump", "replace"}
                 /\ tid \in DOMAIN state'[p]
                 /\ state'[p][tid] # state[p][tid])
                   => /\ pc[p] = "apply"
                      /\ pending[p] = <<>> /\ running[p] = {}
                      /\ Len(results[p]) = Len(due[p])]_vars

\* one worker has returned a failure while another is still running, and the
\* record of the finished task is as it was before the dispatch
C19_Witness ==
    \E p \in Procs :
        /\ pc[p] = "pool" /\ ~args[p].dry_run
        /\ running[p] # {}
        /\ \E r \in done[p] :
              /\ r.rc # 0
              /\ state[p][r.task_id].last_attempt = None
              /\ state[p][r.task_id].last_status = None

\* the marker is there and its age is below the staleness threshold
FreshMarker == lockFile.exists /\ now - lockFile.mtime < StaleAfter

\* the marker is there and its age has reached the staleness threshold
StaleMarker == lockFile.exists /\ now - lockFile.mtime >= StaleAfter

\* invocation q ends its removal of the marker in this step
Removes(q) == pc[q] = "remove_stale" /\ pc'[q] # "remove_stale"

\* the second creation of invocation q decides the token: it is returned iff
\* the creation succeeds, and a failed creation gives up
RetryDecides(q) ==
    (pc[q] = "retry" /\ pc'[q] # "retry")
       => /\ pc'[q] \in {"load", "nolock"}
          /\ (pc'[q] = "load") <=> ~lockFile.exists
          /\ (lock_path'[q] = LockPath) <=> ~lockFile.exists
          /\ ~lockFile.exists => lockFile' = Marker(q)
          /\ lockFile.exists => lockFile' = lockFile

\* the age test of invocation q: it gives up on a marker younger than 2
\* hours, leaving it in place, and goes on to remove one of 2 hours or more
AgeDecides(q) ==
    /\ (pc[q] = "check_age" /\ pc'[q] # "check_age" /\ FreshMarker)
          => (pc'[q] = "nolock" /\ lockFile' = lockFile /\ lock_path'[q] = NoPath)
    /\ (pc[q] = "check_age" /\ pc'[q] # "check_age" /\ StaleMarker)
          => (pc'[q] = "remove_stale" /\ lock_path'[q] = NoPath)

\* C20 as stated: after a failed first creation, acquire_lock gives up on a
\* marker younger than 2 hours, leaving it in place and returning no token;
\* having found a marker of 2 hours or more it removes the marker and retries
\* the exclusive creation exactly once, returning the token iff that creation
\* succeeds
C20_StaleLockPolicy ==
    [][\A q \in Procs :
          /\ AgeDecides(q)
          /\ Removes(q) => (pc'[q] = "retry" /\ ~lockFile'.exists /\ lock_path'[q] = NoPath)
          /\ RetryDecides(q)
          /\ pc'[q] = "nolock" => lock_path'[q] = NoPath]_vars

\* C20: after a failed first creation, acquire_lock gives up on a marker
\* younger than 2 hours, leaving it in place and returning no token; having
\* found a marker of 2 hours or more it removes the marker that is there and
\* retries the exclusive creation exactly once, returning the token iff that
\* creation succeeds; when the marker is gone by the time of the removal it
\* returns no token, without a retry and without creating a marker
C20_StaleLockPolicyUnlessGone ==
    [][\A q \in Procs :
          /\ AgeDecides(q)
          /\ (Removes(q) /\ lockFile.exists)
                => (pc'[q] = "retry" /\ ~lockFile'.exists /\ lock_path'[q] = NoPath)
          /\ (Removes(q) /\ ~lockFile.exists)
                => (pc'[q] = "nolock" /\ lockFile' = lockFile /\ lock_path'[q] = NoPath)
          /\ RetryDecides(q)
          /\ pc'[q] = "nolock" => lock_path'[q] = NoPath]_vars

\* an invocation has removed a marker of 2 hours or more and taken the lock
\* with its retry; the other invocation, which found the same marker stale,
\* has not yet gone on to its removal
C20_Witness ==
    \E p, q \in Procs :
        /\ p # q
        /\ pc[q] = "load" /\ lock_path[q] = LockPath
        /\ lockFile.exists /\ lockFile.pid = q /\ lockFile.mtime = now
        /\ pc[p] = "remove_stale"

\* the size of the pool of invocation p: the override when positive, else
\* the number of due tasks, at most 32
PoolSize(override, n) ==
    IF override > 0 THEN override ELSE IF n > 32 THEN 32 ELSE n

\* C21: the commands of a run executing at one moment are never more than the
\* size of its pool, which is --max-workers when positive and else the number
\* of due tasks capped at 32; when the pool is done every due task has a
\* result, and on a run that is not dry each was executed exactly once
C21_BoundedParallelism ==
    /\ \A p \in Procs :
          /\ InPool(p)
                => Cardinality(running[p]) <= PoolSize(args[p].max_workers, Len(due[p]))
          /\ pc[p] = "apply"
                => /\ {results[p][i].task_id : i \in DOMAIN results[p]} = seen(due[p])
                   /\ Len(results[p]) = Len(due[p])
                   /\ ~args[p].dry_run => \A tid \in TaskIds :
                         ran[p][tid] = IF tid \in seen(due[p]) THEN 1 ELSE 0
    /\ ("due_len" \in DOMAIN probe /\ probe.result # None)
          => probe.result = IntVal(PoolSize(probe.max_workers, probe.due_len))

\* three tasks are due and --max-workers is 2: two commands are executing
\* and the third is waiting for a free worker
C21_Witness ==
    \E p \in Procs :
        /\ pc[p] = "pool" /\ ~args[p].dry_run
        /\ args[p].max_workers = 2
        /\ Len(due[p]) = 3
        /\ Cardinality(running[p]) = 2
        /\ \A j \in running[p] : j.spawned
        /\ Len(pending[p]) = 1

\* invocation p is past the pool, or never needed it
PastPool(p) == pc[p] \in {"apply", "save", "dump", "replace", "release"}

\* no command of invocation p is waiting or executing
PoolIdle(p) == pending[p] = <<>> /\ running[p] = {}

\* one pass: the loop over the entries only moves forward and nothing after
\* it leads back to the loop, the load or the lock
OnePass(p) ==
    /\ (pc[p] = "decide" /\ pc'[p] = "decide") => idx'[p] >= idx[p]
    /\ (pc[p] = "pool" \/ PastPool(p)) => pc'[p] \in {"pool", "exited"} \/ PastPool(p)'
    /\ PastPool(p) => pc'[p] # "pool"

\* C22: a run neither persists state nor exits while a command it dispatched
\* is waiting or executing, it passes over the entries once, and, its probes
\* and commands finishing, a run that has started ends: having replaced the
\* state file unless it is a dry run, and with its marker removed
C22_FinitePassWaitsForAll ==
    /\ [](\A p \in Procs : PastPool(p) => PoolIdle(p))
    /\ [][\A p \in Procs :
            /\ OnePass(p)
            /\ (pc'[p] = "exited" /\ pc[p] # "exited") => PoolIdle(p)
            /\ (pc[p] # "idle" /\ stateFile' # stateFile /\ wrote'[p] # wrote[p])
                  => PoolIdle(p)]_vars
    /\ \A p \in Procs : (pc[p] = "acquire") ~> (pc[p] = "exited")
    /\ \A p \in Procs :
          (pc[p] = "load" /\ ~args[p].dry_run) ~> (pc[p] = "release" /\ wrote[p] = 1)
    /\ \A p \in Procs :
          (pc[p] = "load") ~> (pc[p] = "exited" /\ lock_path[p] = NoPath /\ ~lockFile.exists)

\* the controller is waiting in the pool: one command has returned, its
\* result is taken, and the other is still executing
C22_Witness ==
    \E p \in Procs :
        /\ pc[p] = "pool" /\ ~args[p].dry_run
        /\ pending[p] = <<>>
        /\ Cardinality(running[p]) = 1
        /\ Cardinality(done[p]) = 1
        /\ Len(results[p]) = 1
        /\ wrote[p] = 0

\* task tid is executed in this step, and has been executed before
ExecutedAgain(tid) == started_at'[tid].n > started_at[tid].n /\ started_at[tid].n > 0

\* C23: on a machine where no invocation is killed and the state file can be
\* written, a task id that does not declare rerun_onfail is never executed
\* again before one full interval of its cadence has passed since the start
\* of its previous execution
C23_MinimumSpacing ==
    [][\A tid \in TaskIds :
          (/\ world.faults \cap {"kill", "io"} = {}
           /\ ~DeclaresRerun(configFile, tid)
           /\ ExecutedAgain(tid))
             => started_at'[tid].at - started_at[tid].at >= FREQS[tid[1]]]_vars

\* the records of the state file
Records(file) == {file.tasks[tid] : tid \in DOMAIN file.tasks}

\* record rec is consistent: a status exactly when there was an attempt, and
\* a status of 0 only with a success not earlier than that attempt
Consistent(rec) ==
    /\ (rec.last_status = None) <=> (rec.last_attempt = None)
    /\ rec.last_status = IntVal(0)
          => /\ rec.last_success.k = "iso" /\ rec.last_attempt.k = "iso"
             /\ rec.last_success.t >= rec.last_attempt.t

\* C24: over invocations run one after the other, every record of the state
\* file has a status exactly when it has an attempt, a status of 0 only with
\* a success not earlier than the attempt, and a last_success that, once
\* there, stays and never moves back in time
C24_RecordsConsistent ==
    /\ [](stateFile.k = "json" => \A rec \in Records(stateFile) : Consistent(rec))
    /\ [][\A tid \in DOMAIN stateFile.tasks :
            stateFile.tasks[tid].last_success # None
               => /\ tid \in DOMAIN stateFile'.tasks
                  /\ stateFile'.tasks[tid].last_success.k = "iso"
                  /\ stateFile'.tasks[tid].last_success.t
                        >= stateFile.tasks[tid].last_success.t]_vars

\* a task succeeded in one run and failed in the next: its record on disk
\* has the failure's status and attempt and still the earlier success
C24_Witness ==
    \E tid \in DOMAIN stateFile.tasks :
        LET rec == stateFile.tasks[tid]
        IN  /\ started_at[tid].n = 2
            /\ rec.last_status \notin {None, IntVal(0)}
            /\ rec.last_success.k = "iso" /\ rec.last_success.t >= 0
            /\ rec.last_attempt.k = "iso"
            /\ rec.last_attempt.t > rec.last_success.t

====
